---- MODULE Spec2Model ----
(***************************************************************************)
(* Column classifier and annual-series extractor of the CTBO-UK analysis   *)
(* scripts (src/energy_scenarios.py, src/fig1.py).                         *)
(*                                                                         *)
(* A column name is a tuple of one-character strings, so that the regular  *)
(* expression, the slicing, str.endswith, str.split and int() of the       *)
(* source are computed character by character.                             *)
(*                                                                         *)
(* SpecSummary runs print_columns_summary(df); SpecSeries runs the         *)
(* select / sort / sum / plot part of the script.                          *)
(***************************************************************************)
EXTENDS Integers, Sequences, FiniteSets, Bags, TLC

VARIABLES df, pc, idx, column_groups, grp, col_num, lines, summary,
          sel, years, totals, raised,
          co2_stored_cols, co2_stored_totals, stored_fraction, increment, loop_year

vars == <<df, pc, idx, column_groups, grp, col_num, lines, summary,
          sel, years, totals, raised,
          co2_stored_cols, co2_stored_totals, stored_fraction, increment, loop_year>>

summaryVars == <<idx, column_groups, grp, col_num, lines, summary>>
seriesVars == <<sel, years, totals, raised>>
figVars == <<co2_stored_cols, co2_stored_totals, stored_fraction, increment,
             loop_year>>

\* Largest number of columns of a summarised table, of columns of a table the
\* series are selected from, and of rows of a table.
MaxCols == 4
MaxSeriesCols == 2
MaxRows == 2

(***************************************************************************)
(* Characters and strings                                                  *)
(***************************************************************************)
Digits == <<"0", "1", "2", "3", "4", "5", "6", "7", "8", "9">>

\* \d of the re module, over the characters the latin-1 reader can produce.
IsDigit(c) == \E k \in 1..Len(Digits) : Digits[k] = c

DigitVal(c) == (CHOOSE k \in 1..Len(Digits) : Digits[k] = c) - 1

\* The characters str.split() with no argument splits on.
IsSpace(c) == c \in {" ", "\t", "\n"}

Range(s) == {s[k] : k \in 1..Len(s)}

\* s.endswith(suffix)
EndsWith(s, suffix) ==
    /\ Len(suffix) <= Len(s)
    /\ SubSeq(s, Len(s) - Len(suffix) + 1, Len(s)) = suffix

\* sub in s
Contains(sub, s) ==
    \E k \in 0..(Len(s) - Len(sub)) : SubSeq(s, k + 1, k + Len(sub)) = sub

RECURSIVE IntToStr(_)
\* str(n) for n >= 0
IntToStr(n) ==
    IF n < 10 THEN <<Digits[n + 1]>>
    ELSE IntToStr(n \div 10) \o <<Digits[(n % 10) + 1]>>

\* a > b instead of a < b: the order of sort(reverse=True)
RECURSIVE StrGreater(_, _)
StrGreater(a, b) ==
    IF Len(a) = 0 THEN FALSE
    ELSE IF Len(b) = 0 THEN TRUE
    ELSE IF a[1] # b[1] THEN DigitVal(a[1]) > DigitVal(b[1])
    ELSE StrGreater(Tail(a), Tail(b))

\* lexicographic a < b of two digit strings (str.__lt__ on code points)
RECURSIVE StrLess(_, _)
StrLess(a, b) ==
    IF Len(b) = 0 THEN FALSE
    ELSE IF Len(a) = 0 THEN TRUE
    ELSE IF a[1] # b[1] THEN DigitVal(a[1]) < DigitVal(b[1])
    ELSE StrLess(Tail(a), Tail(b))

(***************************************************************************)
(* Input data: column names and cell values                                *)
(***************************************************************************)
Gas == <<"G", "a", "s">>
Oil == <<"O", "i", "l">>
SP == <<" ">>

Gas2015 == Gas \o SP \o <<"2", "0", "1", "5">>
Gas2016 == Gas \o SP \o <<"2", "0", "1", "6">>
Gas2017 == Gas \o SP \o <<"2", "0", "1", "7">>
Gas2070 == Gas \o SP \o <<"2", "0", "7", "0">>
Gas2071 == Gas \o SP \o <<"2", "0", "7", "1">>
Oil2016 == Oil \o SP \o <<"2", "0", "1", "6">>
\* a three-digit trailing token
Gas201 == Gas \o SP \o <<"2", "0", "1">>
\* a trailing token that ends in the digits of a year but is no number
GasX2016 == Gas \o SP \o <<"X", "2", "0", "1", "6">>
\* a five-digit trailing token that ends in the digits of a year
Gas12016 == Gas \o SP \o <<"1", "2", "0", "1", "6">>
\* a year after a tab instead of a space
GasTab2016 == Gas \o <<"\t">> \o <<"2", "0", "1", "6">>
\* a header cell with a trailing line break, and one with two spaces
GasNL2016 == Gas2016 \o <<"\n">>
GasSS2016 == Gas \o SP \o SP \o <<"2", "0", "1", "6">>

\* Column names print_columns_summary is run on.
SummaryNames ==
    {Gas2016, Gas2017, Gas2070, Oil2016, Gas, Gas201, GasNL2016, GasSS2016}

\* Column names of the tables the series are selected from.
SeriesNames ==
    {Gas2016, Gas2017, Gas2070, Oil2016, Gas2015, Gas2071, Gas201,
     GasX2016, Gas12016, GasTab2016}

\* A cell is <<v>> for the number v, and NaN (the empty tuple) when missing.
NaN == <<>>
Num(v) == <<v>>

\* Two site records: the cell each holds for a column name.
SiteA(name) ==
    CASE name = Gas2016 -> Num(10)
      [] name = Gas2017 -> Num(20)
      [] name = Oil2016 -> Num(7)
      [] OTHER -> Num(1)

SiteB(name) ==
    CASE name = Gas2016 -> Num(5)
      [] name = Gas2017 -> Num(15)
      [] name = Oil2016 -> NaN
      [] name = Gas2070 -> NaN
      [] OTHER -> Num(2)

SiteIds == {"A", "B"}

Cell(site, name) == IF site = "A" THEN SiteA(name) ELSE SiteB(name)

\* Sequences over S of length at most n.
SeqsUpTo(S, n) == UNION {[1..k -> S] : k \in 0..n}

IsInjective(s) == \A a, b \in DOMAIN s : s[a] = s[b] => a = b

\* The table read from the file: the header row and one row of cells per site.
Table(columns, sites) ==
    [columns |-> columns,
     rows |-> [r \in 1..Len(sites) |->
                 [j \in 1..Len(columns) |-> Cell(sites[r], columns[j])]]]

(***************************************************************************)
(* print_columns_summary: the grouping loop                                *)
(***************************************************************************)
\* ' (\d{4})' matched so that the four digits end at position e (1-based).
MatchAt(col, e) ==
    /\ e >= 5
    /\ e <= Len(col)
    /\ col[e - 4] = " "
    /\ \A k \in (e - 3)..e : IsDigit(col[k])

\* re.search(r' (\d{4})$', col): position of the last digit, 0 for no match.
\* $ matches at the end of the string and before a newline that ends it.
YearEnd(col) ==
    IF MatchAt(col, Len(col)) THEN Len(col)
    ELSE IF Len(col) >= 1 /\ col[Len(col)] = "\n" /\ MatchAt(col, Len(col) - 1)
         THEN Len(col) - 1
    ELSE 0

YearMatch(col) == YearEnd(col) # 0

\* year_match.group(1)
YearGroup(col) == SubSeq(col, YearEnd(col) - 3, YearEnd(col))

\* col[:-5]
BaseName(col) == SubSeq(col, 1, Len(col) - 5)

HasKey(groups, key) == \E k \in 1..Len(groups) : groups[k].base_name = key

\* column_groups[key] = [item]: the earlier members of the group are lost
GroupAssign(groups, key, item) ==
    IF HasKey(groups, key)
    THEN [k \in 1..Len(groups) |->
            IF groups[k].base_name = key
            THEN [groups[k] EXCEPT !.columns = <<item>>]
            ELSE groups[k]]
    ELSE Append(groups, [base_name |-> key, columns |-> <<item>>])

\* a mapping that puts a new key before the keys it holds
GroupPrepend(groups, key, item) ==
    IF HasKey(groups, key)
    THEN [k \in 1..Len(groups) |->
            IF groups[k].base_name = key
            THEN [groups[k] EXCEPT !.columns = Append(@, item)]
            ELSE groups[k]]
    ELSE <<[base_name |-> key, columns |-> <<item>>]>> \o groups

\* column_groups[key].append(item) on a defaultdict(list), which keeps the
\* keys in the order of their first insertion.
GroupAppend(groups, key, item) ==
    IF HasKey(groups, key)
    THEN [k \in 1..Len(groups) |->
            IF groups[k].base_name = key
            THEN [groups[k] EXCEPT !.columns = Append(@, item)]
            ELSE groups[k]]
    ELSE Append(groups, [base_name |-> key, columns |-> <<item>>])

\* One iteration of the loop over df.columns.
ClassifyColumn(groups, col) ==
    IF YearMatch(col)
    THEN GroupAppend(groups, BaseName(col), <<YearGroup(col), col>>)
    ELSE GroupAppend(groups, col, <<<<>>, col>>)

(***************************************************************************)
(* print_columns_summary: the printing loop                                *)
(***************************************************************************)
\* insertion of the string y into the ascending list s, after its equals
RECURSIVE InsertStr(_, _)
InsertStr(s, y) ==
    IF s = <<>> THEN <<y>>
    ELSE IF StrLess(y, s[1]) THEN <<y>> \o s
    ELSE <<s[1]>> \o InsertStr(Tail(s), y)

\* years.sort() on a list of strings
RECURSIVE SortStr(_)
SortStr(s) ==
    IF s = <<>> THEN <<>>
    ELSE InsertStr(SortStr(SubSeq(s, 1, Len(s) - 1)), s[Len(s)])

\* len(columns) > 0 instead of len(columns) > 1
IsAnnualSeriesFromOne(columns) ==
    /\ Len(columns) > 0
    /\ \A k \in 1..Len(columns) : columns[k][1] # <<>>

\* len(columns) > 1 and all(year for year, _ in columns)
IsAnnualSeries(columns) ==
    /\ Len(columns) > 1
    /\ \A k \in 1..Len(columns) : columns[k][1] # <<>>

\* A printed line "{ordinal}. {text}", with the branch that printed it and
\* the position of its group in column_groups.
Line(n, text, branch, g) ==
    [ordinal |-> n, text |-> text, branch |-> branch, group |-> g]

\* the annual-series branch without its col_num += 1
PrintAnnualNoAdvance(base_name, columns, n, g) ==
    LET ys == SortStr([k \in 1..Len(columns) |-> columns[k][1]])
        start_year == ys[1]
        end_year == ys[Len(ys)]
        text == IF start_year = end_year
                THEN base_name \o SP \o start_year
                ELSE base_name \o SP \o start_year \o <<"-">> \o end_year
    IN  [out |-> <<Line(n, text, "annual", g)>>, col_num |-> n]

\* the annual-series branch without years.sort()
PrintAnnualUnsorted(base_name, columns, n, g) ==
    LET ys == [k \in 1..Len(columns) |-> columns[k][1]]
        start_year == ys[1]
        end_year == ys[Len(ys)]
        text == IF start_year = end_year
                THEN base_name \o SP \o start_year
                ELSE base_name \o SP \o start_year \o <<"-">> \o end_year
    IN  [out |-> <<Line(n, text, "annual", g)>>, col_num |-> n + 1]

\* The annual-series branch: one line for the whole group, then col_num += 1.
PrintAnnual(base_name, columns, n, g) ==
    LET ys == SortStr([k \in 1..Len(columns) |-> columns[k][1]])
        start_year == ys[1]
        end_year == ys[Len(ys)]
        text == IF start_year = end_year
                THEN base_name \o SP \o start_year
                ELSE base_name \o SP \o start_year \o <<"-">> \o end_year
    IN  [out |-> <<Line(n, text, "annual", g)>>, col_num |-> n + 1]

\* the member branch printing the year of a member that has one
RECURSIVE PrintMembersYearText(_, _, _)
PrintMembersYearText(columns, n, g) ==
    IF columns = <<>> THEN [out |-> <<>>, col_num |-> n]
    ELSE LET rest == PrintMembersYearText(Tail(columns), n + 1, g)
             text == IF columns[1][1] # <<>> THEN columns[1][1]
                     ELSE columns[1][2]
         IN  [out |-> <<Line(n, text, "member", g)>> \o rest.out,
              col_num |-> rest.col_num]

\* the member branch leaving its loop after the first member
PrintMembersFirstOnly(columns, n, g) ==
    IF columns = <<>> THEN [out |-> <<>>, col_num |-> n]
    ELSE [out |-> <<Line(n, columns[1][2], "member", g)>>, col_num |-> n + 1]

\* The other branch: one line per member, col_num += 1 after each.
RECURSIVE PrintMembers(_, _, _)
PrintMembers(columns, n, g) ==
    IF columns = <<>> THEN [out |-> <<>>, col_num |-> n]
    ELSE LET rest == PrintMembers(Tail(columns), n + 1, g)
         IN  [out |-> <<Line(n, columns[1][2], "member", g)>> \o rest.out,
              col_num |-> rest.col_num]

\* One iteration of the loop over column_groups.items().
PrintGroupLines(group, n, g) ==
    IF IsAnnualSeries(group.columns)
    THEN PrintAnnual(group.base_name, group.columns, n, g)
    ELSE PrintMembers(group.columns, n, g)

NoSummary == [columns |-> 0, rows |-> 0]

\* fig1.py has not run.
FigIdle ==
    /\ co2_stored_cols = <<>>
    /\ co2_stored_totals = <<>>
    /\ stored_fraction = <<>>
    /\ increment = 0
    /\ loop_year = 0

InitSummary ==
    /\ \E columns \in SeqsUpTo(SummaryNames, MaxCols) :
          df = Table(columns, [r \in 1..MaxRows |-> "A"])
    /\ pc = "classify"
    /\ idx = 1
    /\ column_groups = <<>>
    /\ grp = 1
    /\ col_num = 0
    /\ lines = <<>>
    /\ summary = NoSummary
    /\ sel = <<>>
    /\ years = <<>>
    /\ totals = <<>>
    /\ raised = "none"
    /\ FigIdle

\* for col in df.columns: ... (one iteration)
Classify ==
    /\ pc = "classify"
    /\ idx <= Len(df.columns)
    /\ column_groups' = ClassifyColumn(column_groups, df.columns[idx])
    /\ idx' = idx + 1
    /\ UNCHANGED <<df, pc, grp, col_num, lines, summary, seriesVars, figVars>>

\* print("Column names:"); col_num = 1
BeginPrint ==
    /\ pc = "classify"
    /\ idx > Len(df.columns)
    /\ pc' = "print"
    /\ col_num' = 1
    /\ grp' = 1
    /\ UNCHANGED <<df, idx, column_groups, lines, summary, seriesVars, figVars>>

\* for base_name, columns in column_groups.items(): ... (one iteration)
PrintGroup ==
    /\ pc = "print"
    /\ grp <= Len(column_groups)
    /\ LET r == PrintGroupLines(column_groups[grp], col_num, grp)
       IN  /\ lines' = lines \o r.out
           /\ col_num' = r.col_num
    /\ grp' = grp + 1
    /\ UNCHANGED <<df, pc, idx, column_groups, summary, seriesVars, figVars>>

\* the two totals printed after the loop
PrintTotals ==
    /\ pc = "print"
    /\ grp > Len(column_groups)
    /\ summary' = [columns |-> Len(df.columns), rows |-> Len(df.rows)]
    /\ pc' = "done"
    /\ UNCHANGED <<df, idx, column_groups, grp, col_num, lines, seriesVars, figVars>>

NextSummary == Classify \/ BeginPrint \/ PrintGroup \/ PrintTotals

SpecSummary == InitSummary /\ [][NextSummary]_vars

(***************************************************************************)
(* The series of the script: select, sort by year, sum, plot               *)
(***************************************************************************)
\* range(2016, 2071)
RangeStart == 2016
RangeStop == 2071

\* The labels of the script, the one the year axis is taken from first.
\* Gas stands for 'Baseline in natural gas use (GWh)', Oil for the labels of
\* the other series.
SeriesLabels == <<Gas, Oil>>

\* tuple([str(year) for year in range(start, stop)]), as a set
YearStrings(start, stop) == {IntToStr(year) : year \in start..(stop - 1)}

\* the tuple of suffixes the script passes to str.endswith
ScriptSuffixes == YearStrings(RangeStart, RangeStop)

\* col.endswith(suffixes)
EndsWithYear(col, suffixes) == \E suffix \in suffixes : EndsWith(col, suffix)

\* the filter that also wants the pattern ' (\d{4})$' of the summary
SelectColsStrict(columns, label, suffixes) ==
    SelectSeq(columns,
              LAMBDA col : /\ Contains(label, col)
                           /\ YearMatch(col)
                           /\ EndsWithYear(col, suffixes))

\* [col for col in df.columns if label in col and col.endswith(suffixes)]
SelectCols(columns, label, suffixes) ==
    SelectSeq(columns,
              LAMBDA col : Contains(label, col) /\ EndsWithYear(col, suffixes))

\* Position of the last character of x that is no whitespace, 0 if none.
TokenEnd(x) ==
    IF \E k \in 1..Len(x) : ~IsSpace(x[k])
    THEN CHOOSE k \in 1..Len(x) :
            /\ ~IsSpace(x[k])
            /\ \A m \in (k + 1)..Len(x) : IsSpace(x[m])
    ELSE 0

\* x.split()[-1]: the last run of characters that are no whitespace.
LastToken(x) ==
    LET e == TokenEnd(x)
        b == CHOOSE k \in 1..e :
                /\ \A m \in k..e : ~IsSpace(x[m])
                /\ k > 1 => IsSpace(x[k - 1])
    IN  SubSeq(x, b, e)

\* int(token) succeeds. Over the characters of the column names here a
\* token is an integer literal exactly when it is a string of digits.
IsIntLiteral(token) ==
    /\ token # <<>>
    /\ \A k \in 1..Len(token) : IsDigit(token[k])

\* int(token)
RECURSIVE ParseInt(_)
ParseInt(token) ==
    IF token = <<>> THEN 0
    ELSE ParseInt(SubSeq(token, 1, Len(token) - 1)) * 10
         + DigitVal(token[Len(token)])

\* lambda x: int(x.split()[-1]) raises (IndexError or ValueError)
KeyRaises(x) == TokenEnd(x) = 0 \/ ~IsIntLiteral(LastToken(x))

\* lambda x: int(x.split()[-1])
SortKey(x) == ParseInt(LastToken(x))

\* insertion of x into the list s ascending by key, after the equal keys
RECURSIVE InsertByYear(_, _)
InsertByYear(s, x) ==
    IF s = <<>> THEN <<x>>
    ELSE IF SortKey(x) < SortKey(s[1]) THEN <<x>> \o s
    ELSE <<s[1]>> \o InsertByYear(Tail(s), x)

\* the list left as the comprehension built it
Unsorted(cols) == cols

\* cols.sort(key=lambda x: int(x.split()[-1])), a stable sort
RECURSIVE SortByYear(_)
SortByYear(cols) ==
    IF cols = <<>> THEN <<>>
    ELSE InsertByYear(SortByYear(SubSeq(cols, 1, Len(cols) - 1)), cols[Len(cols)])

\* df[name] for a header without repeated names
ColumnIndex(table, name) ==
    CHOOSE j \in 1..Len(table.columns) : table.columns[j] = name

\* Series.sum() with skipna=True: the cells of rows 1..r of column j added
\* up, a missing cell adding nothing; 0 for no row.
RECURSIVE SumCells(_, _, _)
SumCells(table, j, r) ==
    IF r = 0 THEN 0
    ELSE LET cell == table.rows[r][j]
         IN  SumCells(table, j, r - 1) + (IF cell = NaN THEN 0 ELSE cell[1])

ColumnSum(table, name) ==
    SumCells(table, ColumnIndex(table, name), Len(table.rows))

\* df.sum(): the selection forgotten
AggregateAllColumns(table, cols) ==
    [k \in 1..Len(table.columns) |-> ColumnSum(table, table.columns[k])]

\* df[cols].sum(): one total per listed column, in the order of the list
AggregateByYear(table, cols) ==
    [k \in 1..Len(cols) |-> ColumnSum(table, cols[k])]

\* plt.plot(x, y) raises ValueError when x and y differ in length
PlotRaises(x, y) == Len(x) # Len(y)

LabelIds == 1..Len(SeriesLabels)

InitSeries ==
    /\ \E columns \in SeqsUpTo(SeriesNames, MaxSeriesCols) :
       \E sites \in SeqsUpTo(SiteIds, MaxRows) :
          /\ IsInjective(columns)
          /\ df = Table(columns, sites)
    /\ pc = "select"
    /\ idx = 0
    /\ column_groups = <<>>
    /\ grp = 0
    /\ col_num = 0
    /\ lines = <<>>
    /\ summary = NoSummary
    /\ sel = <<>>
    /\ years = <<>>
    /\ totals = <<>>
    /\ raised = "none"
    /\ FigIdle

\* the list comprehensions, one per label
Select ==
    /\ pc = "select"
    /\ raised = "none"
    /\ sel' = [l \in LabelIds |->
                 SelectCols(df.columns, SeriesLabels[l], ScriptSuffixes)]
    /\ pc' = "sort"
    /\ UNCHANGED <<df, years, totals, raised, summaryVars, figVars>>

\* for cols in all_baseline_cols + all_total_cols: cols.sort(key=...)
\* The first key that cannot be computed ends the script.
SortAll ==
    /\ pc = "sort"
    /\ raised = "none"
    /\ IF \E l \in LabelIds : \E k \in 1..Len(sel[l]) : KeyRaises(sel[l][k])
       THEN /\ raised' = "ValueError"
            /\ UNCHANGED <<sel, pc>>
       ELSE /\ sel' = [l \in LabelIds |-> SortByYear(sel[l])]
            /\ pc' = "years"
            /\ UNCHANGED raised
    /\ UNCHANGED <<df, years, totals, summaryVars, figVars>>

\* years = [int(col.split()[-1]) for col in baseline_gas_cols]
ExtractYears ==
    /\ pc = "years"
    /\ raised = "none"
    /\ years' = [k \in 1..Len(sel[1]) |-> SortKey(sel[1][k])]
    /\ pc' = "sum"
    /\ UNCHANGED <<df, sel, totals, raised, summaryVars, figVars>>

\* the totals, one df[cols].sum() per label
Aggregate ==
    /\ pc = "sum"
    /\ raised = "none"
    /\ totals' = [l \in LabelIds |-> AggregateByYear(df, sel[l])]
    /\ pc' = "plot"
    /\ UNCHANGED <<df, sel, years, raised, summaryVars, figVars>>

\* plt.plot(years, totals.values), one call per label
PlotAll ==
    /\ pc = "plot"
    /\ raised = "none"
    /\ IF \E l \in LabelIds : PlotRaises(years, totals[l])
       THEN /\ raised' = "ValueError"
            /\ UNCHANGED pc
       ELSE /\ pc' = "done"
            /\ UNCHANGED raised
    /\ UNCHANGED <<df, sel, years, totals, summaryVars, figVars>>

NextSeries == Select \/ SortAll \/ ExtractYears \/ Aggregate \/ PlotAll

SpecSeries == InitSeries /\ [][NextSeries]_vars

(***************************************************************************)
(* Properties of print_columns_summary                                     *)
(***************************************************************************)
BagOfSeq(s) == [x \in Range(s) |-> Cardinality({k \in DOMAIN s : s[k] = x})]

\* The column names of the members of all groups, group after group.
RECURSIVE MemberNames(_)
MemberNames(groups) ==
    IF groups = <<>> THEN <<>>
    ELSE [k \in 1..Len(groups[1].columns) |-> groups[1].columns[k][2]]
         \o MemberNames(Tail(groups))

\* int() of a string of digits
RECURSIVE DigitsValue(_)
DigitsValue(tok) ==
    IF tok = <<>> THEN 0
    ELSE DigitsValue(SubSeq(tok, 1, Len(tok) - 1)) * 10 + DigitVal(tok[Len(tok)])

GroupYears(group) == {group.columns[k][1] : k \in 1..Len(group.columns)}

MinYear(group) ==
    CHOOSE y \in GroupYears(group) :
        \A z \in GroupYears(group) : DigitsValue(y) <= DigitsValue(z)

MaxYear(group) ==
    CHOOSE y \in GroupYears(group) :
        \A z \in GroupYears(group) : DigitsValue(y) >= DigitsValue(z)

LinesOfGroup(g) == {k \in DOMAIN lines : lines[k].group = g}

\* C1: after every iteration of the grouping loop the column names held by
\* the groups are, as a multiset, the column names read so far (at the end
\* of the loop: all of df.columns); every base name keys one group only,
\* and no column name is held by two groups.
C1_Partition ==
    /\ BagOfSeq(MemberNames(column_groups))
         = BagOfSeq(SubSeq(df.columns, 1, idx - 1))
    /\ \A g, h \in DOMAIN column_groups :
         column_groups[g].base_name = column_groups[h].base_name => g = h
    /\ \A g, h \in DOMAIN column_groups :
         \A k \in DOMAIN column_groups[g].columns :
         \A m \in DOMAIN column_groups[h].columns :
            column_groups[g].columns[k][2] = column_groups[h].columns[m][2]
               => g = h

\* C1 witness: the loop has ended on four columns, two of them equal, that
\* fall into two groups, one of which mixes a year-less and a year column.
C1_Witness ==
    /\ pc = "done"
    /\ Len(df.columns) = 4
    /\ ~IsInjective(df.columns)
    /\ Len(column_groups) = 2
    /\ \E g \in DOMAIN column_groups :
         /\ Len(column_groups[g].columns) = 3
         /\ column_groups[g].columns[1][1] = <<>>
         /\ column_groups[g].columns[2][1] # <<>>

\* C2: a printed group is shown by one annual-series line exactly when it
\* has at least two members and the name of every member ends in a year the
\* pattern parsed; then that line is its only line.
C2_AnnualDetection ==
    \A g \in DOMAIN column_groups :
       (pc \in {"print", "done"} /\ g < grp) =>
          LET cols == column_groups[g].columns
              annual == \E k \in LinesOfGroup(g) : lines[k].branch = "annual"
          IN  /\ annual <=> /\ Len(cols) >= 2
                            /\ \A m \in DOMAIN cols : YearMatch(cols[m][2])
              /\ annual => Cardinality(LinesOfGroup(g)) = 1

\* C2 witness: three groups are printed: an annual series, a single column
\* with a year, and a year-less column.
C2_Witness ==
    /\ pc = "done"
    /\ \E g, h, j \in DOMAIN column_groups :
         /\ Len(column_groups[g].columns) = 2
         /\ \E k \in LinesOfGroup(g) : lines[k].branch = "annual"
         /\ Len(column_groups[h].columns) = 1
         /\ column_groups[h].columns[1][1] # <<>>
         /\ \E k \in LinesOfGroup(h) : lines[k].branch = "member"
         /\ column_groups[j].columns[1][1] = <<>>

\* C3: the k-th printed line carries the ordinal k, whichever branch
\* printed it, and while printing col_num is one more than the number of
\* lines printed, so the last ordinal is the number of lines.
C3_OrdinalMonotone ==
    /\ \A k \in DOMAIN lines : lines[k].ordinal = k
    /\ pc \in {"print", "done"} => col_num = Len(lines) + 1

\* C3 witness: a member line is printed after an annual-series line.
C3_Witness ==
    /\ pc = "done"
    /\ \E k \in DOMAIN lines :
         /\ k + 1 \in DOMAIN lines
         /\ lines[k].branch = "annual"
         /\ lines[k + 1].branch = "member"
         /\ lines[k + 1].ordinal = Len(lines)

\* C9: the line of an annual series is its base name, a space and the
\* smallest year of its members when that is also the largest year, and
\* base name, space, smallest year, "-", largest year otherwise.
C9_RangeDisplay ==
    \A k \in DOMAIN lines :
       lines[k].branch = "annual" =>
          LET group == column_groups[lines[k].group]
              lo == MinYear(group)
              hi == MaxYear(group)
          IN  lines[k].text =
                 IF lo = hi THEN group.base_name \o SP \o lo
                 ELSE group.base_name \o SP \o lo \o <<"-">> \o hi

\* C9 witness: one annual series is shown with a single year, and another,
\* whose columns came in descending year order, with a range.
C9_Witness ==
    /\ pc = "done"
    /\ \E k, m \in DOMAIN lines :
         /\ lines[k].branch = "annual"
         /\ lines[k].text = Gas \o SP \o SP \o <<"2", "0", "1", "6">>
         /\ lines[m].branch = "annual"
         /\ lines[m].text = Gas2016 \o <<"-">> \o <<"2", "0", "7", "0">>
         /\ column_groups[lines[m].group].columns[1][2] = Gas2070

(***************************************************************************)
(* Properties of the series                                                *)
(***************************************************************************)
Selected == pc # "select"
Sorted == pc \in {"years", "sum", "plot", "done"}
Summed == pc \in {"plot", "done"}

\* The name ends in one space and four digits whose value is a year of the
\* inclusive range start..stop-1.
HasYearSuffixIn(col, start, stop) ==
    /\ MatchAt(col, Len(col))
    /\ DigitsValue(SubSeq(col, Len(col) - 3, Len(col))) \in start..(stop - 1)

\* The columns of the table that pass the filter of the script for a label.
PassFilter(label) ==
    {col \in Range(df.columns) :
        Contains(label, col) /\ EndsWithYear(col, ScriptSuffixes)}

\* The trailing token has a digit but is not exactly four digits.
MalformedYear(col) ==
    /\ TokenEnd(col) # 0
    /\ \E k \in 1..Len(LastToken(col)) : IsDigit(LastToken(col)[k])
    /\ ~(Len(LastToken(col)) = 4 /\ \A k \in 1..4 : IsDigit(LastToken(col)[k]))

\* The token holds a character that is no digit.
NotANumber(token) == \E k \in 1..Len(token) : ~IsDigit(token[k])

\* The sum of the cells of column j that are present.
RECURSIVE SumOfRows(_, _, _)
SumOfRows(table, j, R) ==
    IF R = {} THEN 0
    ELSE LET r == CHOOSE q \in R : TRUE
         IN  table.rows[r][j][1] + SumOfRows(table, j, R \ {r})

PresentRows(table, j) == {r \in 1..Len(table.rows) : table.rows[r][j] # NaN}

\* C4: the columns selected for a label are exactly the columns whose name
\* contains the label and ends in a space and four digits that are a year
\* of the range.
C4_SelectionFilter ==
    Selected =>
       \A l \in LabelIds :
          Range(sel[l]) =
             {col \in Range(df.columns) :
                 /\ Contains(SeriesLabels[l], col)
                 /\ HasYearSuffixIn(col, RangeStart, RangeStop)}

\* C5: once sorted, the columns selected for a label are in ascending order
\* of the integer their last whitespace-delimited token stands for, and are
\* still the columns that passed the filter; a label that no column
\* contains has the empty selection.
C5_SelectionOrdered ==
    \A l \in LabelIds :
       /\ Sorted =>
            /\ \A k, m \in 1..Len(sel[l]) :
                  k < m => SortKey(sel[l][k]) <= SortKey(sel[l][m])
            /\ Range(sel[l]) = PassFilter(SeriesLabels[l])
            /\ Len(sel[l]) = Cardinality(PassFilter(SeriesLabels[l]))
       /\ (Selected /\ \A col \in Range(df.columns) :
                          ~Contains(SeriesLabels[l], col))
            => sel[l] = <<>>

\* C5 witness: two gas columns that stood in descending year order in the
\* table are sorted, and the label no column contains selected nothing.
C5_Witness ==
    /\ pc = "sum"
    /\ df.columns = <<Gas2070, Gas2016>>
    /\ sel[1] = <<Gas2016, Gas2070>>
    /\ sel[2] = <<>>

\* C6: a label that selects no column has the empty selection and the
\* empty list of totals, and plotting then raises nothing.
C6_EmptySelectionNoError ==
    \A l \in LabelIds :
       (Selected /\ PassFilter(SeriesLabels[l]) = {}) =>
          /\ sel[l] = <<>>
          /\ Summed => totals[l] = <<>>
          /\ pc = "plot" => raised = "none"

\* C7: the totals of a label are one per selected column, in the order of
\* the selection, each the sum of the cells of that column that are
\* present; the table of the two gas columns 2016 and 2017 with the rows
\* 10, 20 and 5, 15 gives 15 and 35.
C7_Aggregation ==
    Summed =>
       /\ \A l \in LabelIds :
             /\ Len(totals[l]) = Len(sel[l])
             /\ \A k \in 1..Len(sel[l]) :
                   LET j == ColumnIndex(df, sel[l][k])
                   IN  totals[l][k] = SumOfRows(df, j, PresentRows(df, j))
       /\ (/\ df.columns = <<Gas2016, Gas2017>>
           /\ df.rows = << <<Num(10), Num(20)>>, <<Num(5), Num(15)>> >>)
             => totals[1] = <<15, 35>>

\* C7 witness: the table of the example has been summed to 15 and 35.
C7_Witness ==
    /\ pc = "plot"
    /\ df.columns = <<Gas2016, Gas2017>>
    /\ df.rows = << <<Num(10), Num(20)>>, <<Num(5), Num(15)>> >>
    /\ sel[1] = <<Gas2016, Gas2017>>
    /\ totals[1] = <<15, 35>>

\* C7 also skips a missing cell: a column with one present and one missing
\* cell sums to the present one.
C7_SkipsMissing ==
    /\ pc = "plot"
    /\ df.columns = <<Oil2016>>
    /\ df.rows = << <<Num(7)>>, <<NaN>> >>
    /\ totals[2] = <<7>>

\* C8 as stated: a table holding a column whose trailing token is a
\* malformed year never gets past the selection and its sort; they raise.
C8_FailFast ==
    (\E col \in Range(df.columns) : MalformedYear(col)) => ~Sorted

\* C8 amended: a column whose trailing token is a malformed year is put by
\* the grouping loop into a group of its own name with no year, and is left
\* out of every selection unless its name ends in the digits of a year of
\* the range; the sort raises exactly when a column that passed the filter
\* has a last token that is no number.
C8_MalformedYearHandling ==
    /\ \A col \in Range(df.columns) :
          MalformedYear(col) =>
             /\ ClassifyColumn(<<>>, col)
                  = <<[base_name |-> col, columns |-> << <<<<>>, col>> >>]>>
             /\ Selected =>
                  \A l \in LabelIds :
                     col \in Range(sel[l]) =>
                        EndsWithYear(col, ScriptSuffixes)
    /\ (pc = "sort" /\ raised # "none") =>
          \E l \in LabelIds : \E col \in PassFilter(SeriesLabels[l]) :
             NotANumber(LastToken(col))
    /\ Sorted =>
          \A l \in LabelIds : \A col \in PassFilter(SeriesLabels[l]) :
             ~NotANumber(LastToken(col))

\* C8 witness: the sort has passed with a three-digit token left out of the
\* selection and a five-digit token kept in it.
C8_Witness ==
    /\ pc = "sum"
    /\ raised = "none"
    /\ \E k \in DOMAIN df.columns : df.columns[k] = Gas201
    /\ Gas201 \notin Range(sel[1])
    /\ Gas12016 \in Range(sel[1])

\* C8: the sort does raise on a token that ends in the digits of a year
\* and is no number.
C8_SortRaised ==
    /\ pc = "sort"
    /\ raised = "ValueError"
    /\ GasX2016 \in Range(sel[1])

(***************************************************************************)
(* Further properties of print_columns_summary                             *)
(***************************************************************************)
Printed(g) == pc \in {"print", "done"} /\ g < grp

\* The group has at least two members and every member name ends in a year.
AllYears(group) ==
    /\ Len(group.columns) >= 2
    /\ \A m \in DOMAIN group.columns : YearMatch(group.columns[m][2])

\* The base name a column name is grouped under.
KeyOf(col) == IF YearMatch(col) THEN BaseName(col) ELSE col

\* The columns the grouping loop has read.
ReadSoFar == SubSeq(df.columns, 1, idx - 1)

FirstIndex(key) ==
    CHOOSE i \in 1..Len(ReadSoFar) :
       /\ KeyOf(ReadSoFar[i]) = key
       /\ \A j \in 1..(i - 1) : KeyOf(ReadSoFar[j]) # key

\* The lines an annual series saves: one less than its members.
RECURSIVE SavedLines(_)
SavedLines(groups) ==
    IF groups = <<>> THEN 0
    ELSE (IF AllYears(groups[1]) THEN Len(groups[1].columns) - 1 ELSE 0)
         + SavedLines(Tail(groups))

\* C11: a member with a year has a year of four digits, and its column name
\* is its base name, a space and the year; a member without a year has its
\* column name as base name.
C11_RoundTrip ==
    \A g \in DOMAIN column_groups :
       \A k \in DOMAIN column_groups[g].columns :
          LET year == column_groups[g].columns[k][1]
              col == column_groups[g].columns[k][2]
              base == column_groups[g].base_name
          IN  IF year # <<>>
              THEN /\ Len(year) = 4
                   /\ \A d \in 1..Len(year) : IsDigit(year[d])
                   /\ base \o SP \o year = col
              ELSE base = col

\* C12: when the column names of the table are pairwise distinct, no two
\* members of a group have the same year.
C12_UniqueYears ==
    IsInjective(df.columns) =>
       \A g \in DOMAIN column_groups :
          \A k, m \in DOMAIN column_groups[g].columns :
             k # m => column_groups[g].columns[k][1]
                         # column_groups[g].columns[m][1]

\* C14: a printed group that is no annual series (one member, or a member
\* without a year) has one line per member, one after the other in member
\* order, each with the full column name of its member and an ordinal one
\* more than the line before.
C14_MemberLines ==
    \A g \in DOMAIN column_groups :
       (Printed(g) /\ ~AllYears(column_groups[g])) =>
          LET cols == column_groups[g].columns
          IN  \E first \in DOMAIN lines :
                 /\ LinesOfGroup(g) = first..(first + Len(cols) - 1)
                 /\ \A k \in 1..Len(cols) :
                       /\ lines[first + k - 1].branch = "member"
                       /\ lines[first + k - 1].text = cols[k][2]
                       /\ lines[first + k - 1].ordinal
                            = lines[first].ordinal + k - 1

\* C14 witness: a group mixing a year column and a year-less column is
\* printed as two member lines in member order, after a single column with
\* a year printed as one member line.
C14_Witness ==
    /\ pc = "done"
    /\ df.columns = <<Oil2016, Gas2016, Gas>>
    /\ Len(lines) = 3
    /\ lines[1].text = Oil2016
    /\ lines[2].text = Gas2016
    /\ lines[3].text = Gas
    /\ lines[3].ordinal = 3
    /\ lines[2].group = lines[3].group

\* C15: the first year shown on the line of an annual series is a year of
\* the group no larger as a number than any year of the group, and the
\* last year shown is one no smaller than any.
C15_NumericYearBounds ==
    \A k \in DOMAIN lines :
       lines[k].branch = "annual" =>
          LET group == column_groups[lines[k].group]
              text == lines[k].text
              from == Len(group.base_name) + 2
              shownStart == SubSeq(text, from, from + 3)
              shownEnd == SubSeq(text, Len(text) - 3, Len(text))
          IN  /\ shownStart \in GroupYears(group)
              /\ shownEnd \in GroupYears(group)
              /\ \A y \in GroupYears(group) :
                    /\ DigitsValue(shownStart) <= DigitsValue(y)
                    /\ DigitsValue(y) <= DigitsValue(shownEnd)

\* C15 witness: three years that came neither ascending nor descending are
\* shown from the smallest to the largest.
C15_Witness ==
    /\ pc = "done"
    /\ df.columns = <<Gas2070, Gas2016, Gas2017>>
    /\ Len(lines) = 1
    /\ lines[1].text = Gas2016 \o <<"-">> \o <<"2", "0", "7", "0">>

\* C16: the groups stand in the order in which their base names first
\* occur among the columns read, the members of a group are the columns of
\* that base name in the order read, and the lines follow the groups.
C16_GroupOrder ==
    /\ \A g, h \in DOMAIN column_groups :
          g < h => FirstIndex(column_groups[g].base_name)
                      < FirstIndex(column_groups[h].base_name)
    /\ \A g \in DOMAIN column_groups :
          [k \in 1..Len(column_groups[g].columns) |->
              column_groups[g].columns[k][2]]
            = SelectSeq(ReadSoFar,
                        LAMBDA c : KeyOf(c) = column_groups[g].base_name)
    /\ \A k, m \in DOMAIN lines : k < m => lines[k].group <= lines[m].group

\* C16 witness: the columns of two base names came interleaved; the group
\* of the base name seen first is first and holds its three columns in
\* input order.
C16_Witness ==
    /\ pc = "done"
    /\ df.columns = <<Gas2017, Oil2016, Gas, Gas2016>>
    /\ Len(column_groups) = 2
    /\ column_groups[1].base_name = Gas
    /\ column_groups[1].columns
         = << <<<<"2", "0", "1", "7">>, Gas2017>>, <<<<>>, Gas>>,
              <<<<"2", "0", "1", "6">>, Gas2016>> >>
    /\ column_groups[2].base_name = Oil
    /\ lines[4].text = Oil2016

\* C18: at the end the number of lines is the number of columns less, for
\* every annual series, one less than its members; so it is at most the
\* number of columns printed as total, and equal to it exactly when no
\* group is an annual series.
C18_LineCount ==
    pc = "done" =>
       /\ Len(lines) = summary.columns - SavedLines(column_groups)
       /\ Len(lines) <= summary.columns
       /\ Len(lines) = summary.columns
            <=> \A g \in DOMAIN column_groups : ~AllYears(column_groups[g])

\* C18 witness: four columns, three of them one annual series, give two
\* lines.
C18_Witness ==
    /\ pc = "done"
    /\ summary.columns = 4
    /\ Len(lines) = 2
    /\ \E g \in DOMAIN column_groups : Len(column_groups[g].columns) = 3

(***************************************************************************)
(* Further properties of the series                                        *)
(***************************************************************************)
\* C13: every series that was plotted has as many totals as there are year
\* labels, and its i-th total is the sum of a selected column whose
\* trailing year is the i-th year label.
C13_YearsAligned ==
    pc = "done" =>
       \A l \in LabelIds :
          /\ Len(totals[l]) = Len(years)
          /\ \A i \in 1..Len(totals[l]) :
                /\ SortKey(sel[l][i]) = years[i]
                /\ totals[l][i]
                     = SumOfRows(df, ColumnIndex(df, sel[l][i]),
                                 PresentRows(df, ColumnIndex(df, sel[l][i])))

(***************************************************************************)
(* fig1.py: the stored CO2 columns and the stored-fraction series          *)
(***************************************************************************)
\* 'Total Tonnes of CO2 stored (MtCO2)', shortened
Sto == <<"S", "t", "o">>

Sto2024 == Sto \o SP \o <<"2", "0", "2", "4">>
Sto2025 == Sto \o SP \o <<"2", "0", "2", "5">>
Sto2060 == Sto \o SP \o <<"2", "0", "6", "0">>
Sto2061 == Sto \o SP \o <<"2", "0", "6", "1">>
StoX2025 == Sto \o SP \o <<"X", "2", "0", "2", "5">>

\* Column names of the tables fig1.py is run on.
FigNames == {Sto2024, Sto2025, Sto2060, Sto2061, StoX2025, Gas2016}

\* range(2025, 2061)
FigStart == 2025
FigStop == 2061

\* Fractions are held in millionths: 0.001 is 1000.
\* stored_fraction = [0.001]; increment = 0.003; increment += 0.002
FirstFraction == 1000
FirstIncrement == 3000
IncrementStep == 2000

\* if year <= 33
LastIncrementIndex == 33

\* round(x, 3): to the nearest thousandth
Round3(x) == ((x + 500) \div 1000) * 1000

\* the value the loop appends for the loop variable y
NextFraction(last, inc, y) ==
    IF y <= LastIncrementIndex THEN Round3(last + inc) ELSE last

\* the increment after the iteration for the loop variable y
NextIncrement(inc, y) ==
    IF y <= LastIncrementIndex THEN inc + IncrementStep ELSE inc

InitFig ==
    /\ \E columns \in SeqsUpTo(FigNames, MaxSeriesCols) :
       \E sites \in SeqsUpTo(SiteIds, MaxRows) :
          /\ IsInjective(columns)
          /\ df = Table(columns, sites)
    /\ pc = "fig_select"
    /\ idx = 0
    /\ column_groups = <<>>
    /\ grp = 0
    /\ col_num = 0
    /\ lines = <<>>
    /\ summary = NoSummary
    /\ sel = <<>>
    /\ years = [k \in 1..(FigStop - FigStart) |-> FigStart + k - 1]
    /\ totals = <<>>
    /\ raised = "none"
    /\ FigIdle

\* co2_stored_cols = [...]; co2_stored_cols.sort(key=...);
\* co2_stored_totals = df[co2_stored_cols].sum()
FigSelect ==
    /\ pc = "fig_select"
    /\ raised = "none"
    /\ LET cols == SelectCols(df.columns, Sto, YearStrings(FigStart, FigStop))
       IN  IF \E k \in 1..Len(cols) : KeyRaises(cols[k])
           THEN /\ raised' = "ValueError"
                /\ UNCHANGED <<pc, co2_stored_cols, co2_stored_totals>>
           ELSE /\ co2_stored_cols' = SortByYear(cols)
                /\ co2_stored_totals' = AggregateByYear(df, SortByYear(cols))
                /\ pc' = "fig_init"
                /\ UNCHANGED raised
    /\ UNCHANGED <<df, stored_fraction, increment, loop_year, sel, years,
                   totals, summaryVars>>

\* stored_fraction = [0.001]; increment = 0.003
FigBegin ==
    /\ pc = "fig_init"
    /\ stored_fraction' = <<FirstFraction>>
    /\ increment' = FirstIncrement
    /\ loop_year' = 1
    /\ pc' = "fig_loop"
    /\ UNCHANGED <<df, co2_stored_cols, co2_stored_totals, seriesVars,
                   summaryVars>>

\* for year in range(1, len(years)): ... (one iteration)
FigStep ==
    /\ pc = "fig_loop"
    /\ loop_year < Len(years)
    /\ stored_fraction' =
          Append(stored_fraction,
                 NextFraction(stored_fraction[Len(stored_fraction)],
                              increment, loop_year))
    /\ increment' = NextIncrement(increment, loop_year)
    /\ loop_year' = loop_year + 1
    /\ UNCHANGED <<df, pc, co2_stored_cols, co2_stored_totals, seriesVars,
                   summaryVars>>

\* the series are handed to the plot calls, whose outcome is not modelled
FigPlot ==
    /\ pc = "fig_loop"
    /\ loop_year >= Len(years)
    /\ pc' = "fig_plot"
    /\ UNCHANGED <<df, figVars, seriesVars, summaryVars>>

NextFig == FigSelect \/ FigBegin \/ FigStep \/ FigPlot

SpecFig == InitFig /\ [][NextFig]_vars

\* The position of the year y in years.
YearIndex(y) == CHOOSE k \in 1..Len(years) : years[k] = y

\* C17: the stored-fraction series has one entry per year 2025..2060,
\* starts at 0.001, grows up to the entry of 2055 by an increment that is
\* 0.003 first and 0.002 more each year, and has the value of 2055 at every
\* later year.
C17_StoredFraction ==
    pc = "fig_plot" =>
       /\ Len(stored_fraction) = Len(years)
       /\ years = [k \in 1..36 |-> 2024 + k]
       /\ stored_fraction[1] = 1000
       /\ \A k \in 2..Len(stored_fraction) :
             IF years[k] <= 2055
             THEN stored_fraction[k] - stored_fraction[k - 1]
                     = 3000 + 2000 * (k - 2)
             ELSE stored_fraction[k] = stored_fraction[YearIndex(2055)]

====
